---- MODULE Spec2Model ----
(***************************************************************************)
(* Model of the binding generator in src/src/lib.rs: the recursive walk    *)
(* generate_c_api_and_rust_exports over a list of syn items, the external  *)
(* module resolution, and the function / struct binding generators.        *)
(*                                                                         *)
(* A text (String) is a sequence of tokens; every token is a record        *)
(* [t, name, args, tys, ty] of strings and sequences of strings, and       *)
(* stands for one non-empty piece of the formatted text.  Concatenation of *)
(* texts is \o, the empty String is << >>, and a text has zero bytes only  *)
(* when it has zero tokens.                                                *)
(***************************************************************************)
EXTENDS Integers, Sequences, FiniteSets, TLC

\* top_call : the arguments of the outermost call (never changed)
\* files : the file system the module resolver looks at (never changed)
\* stack : the call frames of generate_c_api_and_rust_exports
\* pc    : "run", "done" (returned), "aborted" (panicked), "overflow"
\* out   : the returned pair of texts
VARIABLES top_call, files, stack, pc, out

vars == <<top_call, files, stack, pc, out>>

(***************************************************************************)
(* Bounds of the model.                                                    *)
(***************************************************************************)
\* Frames the call stack holds before a further recursive call overflows it.
MaxDepth == 5
\* Largest number of inputs of a function signature drawn in FnInit.
MaxParams == 2

(***************************************************************************)
(* Source types (syn::Type), as far as the code distinguishes them.        *)
(*   k = "path"  : Type::Path, id is the first path segment's ident        *)
(*   k = "ref"   : Type::Reference; ek / id describe the referent          *)
(*   k = "other" : any other Type (tuple, slice, pointer, ...)             *)
(***************************************************************************)
TPath(id) == [k |-> "path", id |-> id, ek |-> ""]
TRefPath(id) == [k |-> "ref", id |-> id, ek |-> "path"]
TRefOther == [k |-> "ref", id |-> "", ek |-> "other"]
TOther == [k |-> "other", id |-> "", ek |-> ""]

\* ReturnType::Default
NoReturn == [k |-> "default", id |-> "", ek |-> ""]

(***************************************************************************)
(* Tokens of the generated texts.                                          *)
(***************************************************************************)
Tok(t, name, args, tys, ty) ==
    [t |-> t, name |-> name, args |-> args, tys |-> tys, ty |-> ty]

\* The "\n" separator inserted by Vec::join("\n").
NL == Tok("nl", "", << >>, << >>, "")
\* The "extern crate alloc;\n" prefix of format! at lib.rs:91.
Preamble == Tok("extern_crate_alloc", "", << >>, << >>, "")

(***************************************************************************)
(* convert_case's to_case(Case::Snake) on the identifiers of the model.    *)
(***************************************************************************)
to_snake(s) ==
    CASE s = "MyCrate" -> "my_crate"
      [] s = "MyStruct" -> "my_struct"
      [] s = "Point" -> "point"
      [] OTHER -> s

(***************************************************************************)
(* Type mapper.                                                            *)
(***************************************************************************)
rust_type_to_c(ty) ==
    IF ty.k = "path"
    THEN CASE ty.id = "i32" -> "int"
           [] ty.id = "f64" -> "double"
           [] ty.id = "u32" -> "unsigned int"
           [] ty.id = "bool" -> "bool"
           [] ty.id = "String" -> "char*"
           [] ty.id = "Vec" -> "void*"
           [] ty.id = "Option" -> "void*"
           [] OTHER -> ty.id \o "*"
    ELSE "void*"

rust_type_to_rust_extern_c(ty) ==
    IF ty.k = "path"
    THEN CASE ty.id = "i32" -> "i32"
           [] ty.id = "f64" -> "f64"
           [] ty.id = "u32" -> "u32"
           [] ty.id = "bool" -> "bool"
           [] ty.id = "String" -> "*mut core::ffi::c_char"
           [] ty.id = "Vec" -> "*mut cor:::ffi::c_void"
           [] ty.id = "Option" -> "*mut core::ffi::c_void"
           [] OTHER -> ty.id
    ELSE "void"

(***************************************************************************)
(* Small sequence helpers.                                                 *)
(***************************************************************************)
RECURSIVE Flatten(_)
\* Concatenation of a sequence of texts with nothing in between.
Flatten(v) == IF v = << >> THEN << >> ELSE Head(v) \o Flatten(Tail(v))

RECURSIVE join(_)
\* Vec<String>::join("\n")
join(v) ==
    IF v = << >> THEN << >>
    ELSE IF Len(v) = 1 THEN Head(v)
         ELSE Head(v) \o <<NL>> \o join(Tail(v))

(***************************************************************************)
(* Items (syn::Item) are records                                           *)
(*   [kind, pub, name, inputs, output, fields, inline, content]            *)
(* kind is "fn", "struct", "mod" or "other"; pub is TRUE for               *)
(* Visibility::Public; inputs are [typed, name, ty] (typed = FALSE is a    *)
(* FnArg::Receiver); fields are [named, name, ty]; a module has            *)
(* inline = TRUE and its items in content when module.content is Some.     *)
(***************************************************************************)
Fn(name, pub, inputs, output) ==
    [kind |-> "fn", pub |-> pub, name |-> name, inputs |-> inputs,
     output |-> output, fields |-> << >>, inline |-> FALSE, content |-> << >>]

Struct(name, pub, fields) ==
    [kind |-> "struct", pub |-> pub, name |-> name, inputs |-> << >>,
     output |-> NoReturn, fields |-> fields, inline |-> FALSE,
     content |-> << >>]

Mod(name, pub, content) ==
    [kind |-> "mod", pub |-> pub, name |-> name, inputs |-> << >>,
     output |-> NoReturn, fields |-> << >>, inline |-> TRUE,
     content |-> content]

ExternMod(name, pub) ==
    [kind |-> "mod", pub |-> pub, name |-> name, inputs |-> << >>,
     output |-> NoReturn, fields |-> << >>, inline |-> FALSE,
     content |-> << >>]

\* Any other Item (use, impl, const, ...), ignored by the walk.
OtherItem ==
    [kind |-> "other", pub |-> FALSE, name |-> "", inputs |-> << >>,
     output |-> NoReturn, fields |-> << >>, inline |-> FALSE,
     content |-> << >>]

Param(name, ty) == [typed |-> TRUE, name |-> name, ty |-> ty]
Receiver == [typed |-> FALSE, name |-> "self", ty |-> TOther]
Field(name, ty) == [named |-> TRUE, name |-> name, ty |-> ty]
TupleField(ty) == [named |-> FALSE, name |-> "", ty |-> ty]

(***************************************************************************)
(* Visibility resolver.                                                    *)
(***************************************************************************)
\* Faulty variant: the inherited flag is not consulted.
is_public_function_own_marker(func, parent_public) == func.pub

is_public_function(func, parent_public) ==
    IF func.pub THEN TRUE ELSE parent_public

is_public_struct(struct_item, parent_public) ==
    IF struct_item.pub THEN TRUE ELSE parent_public

\* Faulty variant: every module counts as public.
is_public_mod_any(module) == TRUE

is_public_mod(module) == module.pub

(***************************************************************************)
(* Function binding generator.                                             *)
(***************************************************************************)
\* The Argument of one FnArg::Typed input.
Argument(input) ==
    [name |-> input.name, ty |-> input.ty, c_ty |-> rust_type_to_c(input.ty),
     extern_c_ty |-> rust_type_to_rust_extern_c(input.ty)]

IsTyped(input) == input.typed

\* The args vector: one Argument per typed input, in declaration order.
collect_args(func) ==
    LET typed == SelectSeq(func.inputs, IsTyped)
    IN  [j \in 1..Len(typed) |-> Argument(typed[j])]

c_ret_type(func) ==
    IF func.output.k = "default" THEN "void" ELSE rust_type_to_c(func.output)

rust_ret_type(func) ==
    IF func.output.k = "default" THEN "()"
    ELSE rust_type_to_rust_extern_c(func.output)

\* Faulty variant: the trailing context slot is left out.
c_binding_params_no_context(args) == [j \in 1..Len(args) |-> args[j].c_ty]

\* The parameter list of the header declaration.
c_binding_params(args) ==
    [j \in 1..Len(args) |-> args[j].c_ty] \o <<"void*">>

\* The conversion statement pushed for one argument (empty when none is).
arg_conversion(arg) ==
    IF arg.ty.k = "ref"
    THEN IF arg.ty.ek = "path"
         THEN IF arg.ty.id = "str"
              THEN <<Tok("cstr_to_str", arg.name, << >>, << >>, "")>>
              ELSE << >>
         ELSE <<Tok("transmute", arg.name, << >>, << >>, arg.extern_c_ty)>>
    ELSE IF arg.ty.k = "path"
         THEN IF arg.ty.id = "String"
              THEN <<Tok("cstr_to_string", arg.name, << >>, << >>, "")>>
              ELSE <<Tok("transmute", arg.name, << >>, << >>,
                         arg.extern_c_ty)>>
         ELSE <<Tok("transmute", arg.name, << >>, << >>, arg.extern_c_ty)>>

\* The statements pushed after the call of the real function.
return_conversion(ret) ==
    IF ret # "void"
    THEN IF ret = "*mut core::ffi::c_char"
         THEN <<Tok("cstring_into_raw", "result", << >>, << >>, ""),
                Tok("result", "result", << >>, << >>, "")>>
         ELSE <<Tok("transmute_result", "result", << >>, << >>, ret)>>
    ELSE << >>

generate_c_binding_and_rust_wrapper(func, module_name) ==
    LET args == collect_args(func)
        names == [j \in 1..Len(args) |-> args[j].name]
        c_binding ==
            <<Tok("c_decl", func.name, << >>, c_binding_params(args),
                  c_ret_type(func))>>
        head ==
            <<Tok("wrapper_sig", func.name, names,
                  [j \in 1..Len(args) |-> args[j].extern_c_ty],
                  rust_ret_type(func)),
              Tok("use", func.name, << >>, << >>, module_name)>>
        convs == Flatten([j \in 1..Len(args) |-> arg_conversion(args[j])])
        call == <<Tok("call", func.name, names, << >>, "")>>
    IN  [c |-> c_binding,
         rust |-> head \o convs \o call
                  \o return_conversion(rust_ret_type(func))
                  \o <<Tok("close", func.name, << >>, << >>, "")>>]

(***************************************************************************)
(* Struct binding generator.                                               *)
(***************************************************************************)
IsNamed(field) == field.named

generate_c_struct_binding_and_rust_wrapper(struct_item, mod_name) ==
    LET struct_name_c == to_snake(struct_item.name)
        named == SelectSeq(struct_item.fields, IsNamed)
        bindings ==
            <<Tok("c_struct", struct_name_c,
                  [j \in 1..Len(named) |-> named[j].name],
                  [j \in 1..Len(named) |-> rust_type_to_c(named[j].ty)], ""),
              Tok("c_new", struct_name_c, << >>, << >>, ""),
              Tok("c_free", struct_name_c, << >>, << >>, "")>>
        rust_struct_wrapper ==
            <<Tok("use_struct", struct_item.name, << >>, << >>, mod_name),
              Tok("rust_new", struct_name_c, << >>, << >>, struct_item.name),
              Tok("rust_free", struct_name_c, << >>, << >>,
                  struct_item.name)>>
    IN  [c |-> bindings, rust |-> rust_struct_wrapper]

(***************************************************************************)
(* Paths and the file system.  A path is the sequence of its components;   *)
(* files maps every path that exists to [st, items]: st = "ok" for a file  *)
(* that reads and parses to items, "unreadable" for an entry that exists   *)
(* but cannot be read (a directory, bad encoding, no permission),          *)
(* "unparsable" for a file syn::parse_file rejects.                        *)
(***************************************************************************)
path_join(base_path, rel) == base_path \o rel

path_parent(path) == SubSeq(path, 1, Len(path) - 1)

path_exists(fs, path) == path \in DOMAIN fs

\* base_path.join("<module>.rs")
mod_file_path(module, base_path) ==
    path_join(base_path, <<module.name \o ".rs">>)

\* base_path.join("<module>/mod.rs")
mod_folder_path(module, base_path) ==
    path_join(base_path, <<module.name, "mod.rs">>)

\* Faulty variant: the first candidate is taken without looking whether it exists.
resolve_mod_path_unchecked(fs, module, base_path) ==
    <<path_join(base_path, <<module.name \o ".rs">>)>>

\* The backing file chosen for an external module: << path >>, or << >>
\* when neither candidate exists (the early return None).
resolve_mod_path(fs, module, base_path) ==
    IF path_exists(fs, mod_file_path(module, base_path))
    THEN <<mod_file_path(module, base_path)>>
    ELSE IF path_exists(fs, mod_folder_path(module, base_path))
         THEN <<mod_folder_path(module, base_path)>>
         ELSE << >>

\* fs::read_to_string(..).expect(..) then syn::parse_file(..).expect(..):
\* << items >> when both succeed, << >> when either panics.
read_and_parse(fs, path) ==
    IF path_exists(fs, path) /\ fs[path].st = "ok"
    THEN <<fs[path].items>>
    ELSE << >>

(***************************************************************************)
(* Call frames of generate_c_api_and_rust_exports.  i is the position of   *)
(* the for loop; returned is set once the frame has computed its return    *)
(* value (ret_c, ret_rust), which the caller then pushes or receives.      *)
(***************************************************************************)
NewFrame(syntax_tree, base_path, parent_public, crate_name, mod_name) ==
    [syntax_tree |-> syntax_tree, base_path |-> base_path,
     parent_public |-> parent_public, crate_name |-> to_snake(crate_name),
     mod_name |-> to_snake(mod_name), i |-> 1, c_bindings |-> << >>,
     rust_exports |-> << >>, returned |-> FALSE, ret_c |-> << >>,
     ret_rust |-> << >>]

NoOutput == [set |-> FALSE, c |-> << >>, rust |-> << >>]

Top == stack[Len(stack)]

Item == Top.syntax_tree[Top.i]

\* The for loop of the running frame stands at an item.
InLoop ==
    /\ pc = "run"
    /\ ~Top.returned
    /\ Top.i <= Len(Top.syntax_tree)

\* Faulty variant: an element equal to one already collected is dropped.
push_dedup(v, e) == IF \E j \in 1..Len(v) : v[j] = e THEN v ELSE Append(v, e)

\* Vec::push
push(v, e) == Append(v, e)

\* The frame after its loop moved on without pushing anything.
Advance(f) == [f EXCEPT !.i = @ + 1]

\* The frame after it pushed a (header, wrapper) pair and moved on.
Emit(f, pair) ==
    [f EXCEPT !.c_bindings = push(@, pair.c),
              !.rust_exports = push(@, pair.rust),
              !.i = @ + 1]

SetTop(f) == stack' = [stack EXCEPT ![Len(stack)] = f]

\* A recursive call; the stack of MaxDepth frames cannot take another one.
Call(frame) ==
    IF Len(stack) < MaxDepth
    THEN stack' = Append(stack, frame) /\ pc' = pc
    ELSE stack' = stack /\ pc' = "overflow"

(***************************************************************************)
(* The steps of the walk.                                                  *)
(***************************************************************************)
\* Item::Fn
VisitFn ==
    /\ InLoop
    /\ Item.kind = "fn"
    /\ SetTop(IF is_public_function(Item, Top.parent_public)
              THEN Emit(Top, generate_c_binding_and_rust_wrapper(
                                 Item, Top.mod_name))
              ELSE Advance(Top))
    /\ UNCHANGED <<top_call, files, pc, out>>

\* Item::Struct
VisitStruct ==
    /\ InLoop
    /\ Item.kind = "struct"
    /\ SetTop(IF is_public_struct(Item, Top.parent_public)
              THEN Emit(Top, generate_c_struct_binding_and_rust_wrapper(
                                 Item, Top.crate_name))
              ELSE Advance(Top))
    /\ UNCHANGED <<top_call, files, pc, out>>

\* Any other item: the _ => {} arm.
VisitOther ==
    /\ InLoop
    /\ Item.kind = "other"
    /\ SetTop(Advance(Top))
    /\ UNCHANGED <<top_call, files, pc, out>>

\* Item::Mod that is not public: nothing happens.
SkipPrivateMod ==
    /\ InLoop
    /\ Item.kind = "mod"
    /\ ~is_public_mod(Item)
    /\ SetTop(Advance(Top))
    /\ UNCHANGED <<top_call, files, pc, out>>

\* Public Item::Mod with content: the recursive call on its items.
EnterInlineMod ==
    /\ InLoop
    /\ Item.kind = "mod"
    /\ is_public_mod(Item)
    /\ Item.inline
    /\ Call(NewFrame(Item.content, Top.base_path, TRUE, Top.crate_name,
                     Top.mod_name))
    /\ UNCHANGED <<top_call, files, out>>

\* Public external module with neither candidate file: None, nothing pushed.
ExternalModMissing ==
    /\ InLoop
    /\ Item.kind = "mod"
    /\ is_public_mod(Item)
    /\ ~Item.inline
    /\ resolve_mod_path(files, Item, Top.base_path) = << >>
    /\ SetTop(Advance(Top))
    /\ UNCHANGED <<top_call, files, pc, out>>

\* Public external module whose file exists but does not read or parse:
\* expect() panics and the run ends without a return value.
ExternalModFatal ==
    /\ InLoop
    /\ Item.kind = "mod"
    /\ is_public_mod(Item)
    /\ ~Item.inline
    /\ resolve_mod_path(files, Item, Top.base_path) # << >>
    /\ read_and_parse(files,
                      resolve_mod_path(files, Item, Top.base_path)[1]) = << >>
    /\ pc' = "aborted"
    /\ UNCHANGED <<top_call, files, stack, out>>

\* Public external module that resolved and parsed: the recursive call on
\* the file's items, with the file's parent directory as base path.
EnterExternalMod ==
    /\ InLoop
    /\ Item.kind = "mod"
    /\ is_public_mod(Item)
    /\ ~Item.inline
    /\ resolve_mod_path(files, Item, Top.base_path) # << >>
    /\ LET mod_path == resolve_mod_path(files, Item, Top.base_path)[1]
           parsed == read_and_parse(files, mod_path)
       IN  /\ parsed # << >>
           /\ Call(NewFrame(parsed[1], path_parent(mod_path), TRUE,
                            Top.crate_name, Top.mod_name))
    /\ UNCHANGED <<top_call, files, out>>

\* The end of the loop: the frame's return value (lib.rs:90-94).
Join ==
    /\ pc = "run"
    /\ ~Top.returned
    /\ Top.i > Len(Top.syntax_tree)
    /\ SetTop([Top EXCEPT !.returned = TRUE,
                          !.ret_c = join(Top.c_bindings),
                          !.ret_rust = <<Preamble>> \o join(Top.rust_exports)])
    /\ UNCHANGED <<top_call, files, pc, out>>

\* The caller pushes the returned pair of a module and moves on.
Splice ==
    /\ pc = "run"
    /\ Top.returned
    /\ Len(stack) >= 2
    /\ stack' = [SubSeq(stack, 1, Len(stack) - 1)
                   EXCEPT ![Len(stack) - 1] =
                       Emit(@, [c |-> Top.ret_c, rust |-> Top.ret_rust])]
    /\ UNCHANGED <<top_call, files, pc, out>>

\* The outermost call returns the two output texts.
Finish ==
    /\ pc = "run"
    /\ Top.returned
    /\ Len(stack) = 1
    /\ out' = [set |-> TRUE, c |-> Top.ret_c, rust |-> Top.ret_rust]
    /\ pc' = "done"
    /\ stack' = << >>
    /\ UNCHANGED <<top_call, files>>

Next ==
    \/ VisitFn
    \/ VisitStruct
    \/ VisitOther
    \/ SkipPrivateMod
    \/ EnterInlineMod
    \/ ExternalModMissing
    \/ ExternalModFatal
    \/ EnterExternalMod
    \/ Join
    \/ Splice
    \/ Finish

(***************************************************************************)
(* Inputs.  The declaration trees are those of a crate                     *)
(*                                                                         *)
(*   [pub] fn add(a: i32, b: i32) -> i32                                   *)
(*   pub mod gone;                                                         *)
(*   [pub] mod m1 { B1 }   or   [pub] mod m1;                              *)
(*   [pub] struct MyStruct { x: i32, y: i32 }                              *)
(*   impl ...                                                              *)
(*   fn z()                                                                *)
(*                                                                         *)
(*   B1:  fn g(s: &str)                                                    *)
(*        [pub] mod m2 { B2 }   or   [pub] mod m2;                         *)
(*        struct Point(f64, f64)                                           *)
(*        [pub] fn k() -> String                                           *)
(*                                                                         *)
(*   B2:  fn h()                                                           *)
(*        pub fn add(n: String)                                            *)
(*        pub mod twin { pub fn h() }                                      *)
(*        pub mod empty { }                                                *)
(*                                                                         *)
(* with every [pub] present or absent, over the file layouts of Layouts.   *)
(***************************************************************************)
I32 == TPath("i32")

B2 ==
    <<Fn("h", FALSE, << >>, NoReturn),
      Fn("add", TRUE, <<Param("n", TPath("String"))>>, NoReturn),
      Mod("twin", TRUE, <<Fn("h", TRUE, << >>, NoReturn)>>),
      Mod("empty", TRUE, << >>)>>

B1(m2_pub, m2_inline, k_pub) ==
    <<Fn("g", FALSE, <<Param("s", TRefPath("str"))>>, NoReturn),
      IF m2_inline THEN Mod("m2", m2_pub, B2) ELSE ExternMod("m2", m2_pub),
      Struct("Point", FALSE, <<TupleField(TPath("f64")),
                               TupleField(TPath("f64"))>>),
      Fn("k", k_pub, << >>, TPath("String"))>>

TopItems(add_pub, m1_pub, m1_inline, s_pub, b1) ==
    <<Fn("add", add_pub, <<Param("a", I32), Param("b", I32)>>, I32),
      ExternMod("gone", TRUE),
      IF m1_inline THEN Mod("m1", m1_pub, b1) ELSE ExternMod("m1", m1_pub),
      Struct("MyStruct", s_pub, <<Field("x", I32), Field("y", I32)>>),
      OtherItem,
      Fn("z", FALSE, << >>, NoReturn)>>

Ok(items) == [st |-> "ok", items |-> items]
Broken(st) == [st |-> st, items |-> << >>]

\* A file that declares the external module it is itself the backing file of.
SelfRef == <<Fn("g", FALSE, << >>, NoReturn), ExternMod("m1", TRUE)>>

LayoutNames ==
    {"none", "flat", "dirs", "both", "shadowed", "unreadable", "unparsable",
     "cycle", "cycle_dir"}

\* The existing paths of a layout, each with its file; b1 is the content of
\* module m1's file.
Layout(name, b1) ==
    CASE name = "none" -> { }
      [] name = "flat" ->
            {<< <<"src", "m1.rs">>, Ok(b1) >>, << <<"src", "m2.rs">>, Ok(B2) >>}
      [] name = "dirs" ->
            {<< <<"src", "m1", "mod.rs">>, Ok(b1) >>,
             << <<"src", "m1", "m2", "mod.rs">>, Ok(B2) >>}
      [] name = "both" ->
            {<< <<"src", "m1.rs">>, Ok(b1) >>,
             << <<"src", "m1", "mod.rs">>,
                Ok(<<Fn("wrong", TRUE, << >>, NoReturn)>>) >>,
             << <<"src", "m2.rs">>, Ok(B2) >>}
      [] name = "shadowed" ->
            {<< <<"src", "m1.rs">>, Ok(b1) >>,
             << <<"src", "m1", "mod.rs">>, Broken("unparsable") >>,
             << <<"src", "m2.rs">>, Ok(B2) >>,
             << <<"src", "m2", "mod.rs">>, Broken("unreadable") >>}
      [] name = "unreadable" ->
            {<< <<"src", "m1.rs">>, Broken("unreadable") >>,
             << <<"src", "m1", "mod.rs">>, Ok(b1) >>,
             << <<"src", "m2.rs">>, Broken("unreadable") >>}
      [] name = "unparsable" ->
            {<< <<"src", "m1.rs">>, Ok(b1) >>,
             << <<"src", "m2.rs">>, Broken("unparsable") >>}
      [] name = "cycle" ->
            {<< <<"src", "m1.rs">>, Ok(SelfRef) >>,
             << <<"src", "m2.rs">>, Ok(B2) >>}
      [] name = "cycle_dir" ->
            {<< <<"src", "m1", "mod.rs">>, Ok(<<ExternMod("m1", TRUE)>>) >>,
             << <<"src", "m1", "m1.rs">>, Ok(SelfRef) >>}

FileSystem(entries) ==
    [p \in {e[1] : e \in entries} |->
        (CHOOSE e \in entries : e[1] = p)[2]]

CrateNames == {"MyCrate"}

\* A source directory, and the input file itself as src/main.rs:62 passes it.
BasePaths == {<<"src">>, <<"src", "lib.rs">>}

Init ==
    /\ pc = "run"
    /\ out = NoOutput
    /\ \E add_pub, m1_pub, m1_inline, s_pub, m2_pub, m2_inline, k_pub,
          parent_public \in BOOLEAN :
       \E layout \in LayoutNames, crate_name \in CrateNames,
          base_path \in BasePaths :
          LET b1 == B1(m2_pub, m2_inline, k_pub)
          IN  /\ files = FileSystem(Layout(layout, b1))
              /\ top_call = [syntax_tree |-> TopItems(add_pub, m1_pub, m1_inline,
                                                   s_pub, b1),
                          base_path |-> base_path,
                          parent_public |-> parent_public,
                          crate_name |-> crate_name,
                          mod_name |-> crate_name]
              /\ stack = <<NewFrame(top_call.syntax_tree, top_call.base_path,
                                    top_call.parent_public, top_call.crate_name,
                                    top_call.mod_name)>>

Spec == Init /\ [][Next]_vars

\* The walk is one sequential thread: a step that can be taken is taken.
FairSpec == Spec /\ WF_vars(Next)

(***************************************************************************)
(* The function binding generator on its own: one exported function at the *)
(* top level, over the signatures of FnInputs.                             *)
(***************************************************************************)
FnTypes ==
    {TPath("i32"), TPath("String"), TPath("Foo"), TRefPath("str"),
     TRefPath("Foo"), TRefOther, TOther}

ParamNames == <<"a", "b", "c", "d", "e", "f">>

\* What one input of a signature can be: a typed parameter or a receiver.
SelfChoice == [k |-> "receiver", id |-> "", ek |-> ""]

InputChoices == FnTypes \cup {SelfChoice}

InputsOf(choice) ==
    [j \in 1..Len(choice) |->
        IF choice[j].k = "receiver" THEN Receiver
        ELSE Param(ParamNames[j], choice[j])]

FnInputs ==
    {Fn("f", TRUE, InputsOf(choice), output) :
        choice \in UNION {[1..n -> InputChoices] : n \in 0..MaxParams},
        output \in FnTypes \cup {NoReturn}}

FnInit ==
    /\ pc = "run"
    /\ out = NoOutput
    /\ files = FileSystem({ })
    /\ \E func \in FnInputs, crate_name \in CrateNames :
          /\ top_call = [syntax_tree |-> <<func>>, base_path |-> <<"src">>,
                      parent_public |-> FALSE, crate_name |-> crate_name,
                      mod_name |-> crate_name]
          /\ stack = <<NewFrame(top_call.syntax_tree, top_call.base_path,
                                top_call.parent_public, top_call.crate_name,
                                top_call.mod_name)>>

FnNext ==
    \/ VisitFn
    \/ Join
    \/ Finish

FnSpec == FnInit /\ [][FnNext]_vars

(***************************************************************************)
(* Vocabulary of the properties.                                           *)
(***************************************************************************)
Elems(v) == {v[j] : j \in 1..Len(v)}

\* The items a frame's loop has already dealt with.
Processed(f) == {j \in 1..Len(f.syntax_tree) : j < f.i}

\* The pair the generators make for a fn or struct item inside frame f.
Generated(f, item) ==
    IF item.kind = "fn"
    THEN generate_c_binding_and_rust_wrapper(item, f.mod_name)
    ELSE generate_c_struct_binding_and_rust_wrapper(item, f.crate_name)

\* The item's pair was pushed by frame f itself.
Emitted(f, item) ==
    /\ Generated(f, item).c \in Elems(f.c_bindings)
    /\ Generated(f, item).rust \in Elems(f.rust_exports)

\* Tokens that name a declaration: the first token of its header fragment
\* and the wrapper token that carries its name but no module path.
HeaderKey(item) ==
    IF item.kind = "fn"
    THEN generate_c_binding_and_rust_wrapper(item, "").c[1]
    ELSE generate_c_struct_binding_and_rust_wrapper(item, "").c[1]

WrapperKey(item) ==
    IF item.kind = "fn"
    THEN generate_c_binding_and_rust_wrapper(item, "").rust[1]
    ELSE generate_c_struct_binding_and_rust_wrapper(item, "").rust[2]

\* Every text the run holds: pushed fragments, return values, the output.
AllTexts ==
    {out.c, out.rust}
    \cup UNION {Elems(stack[k].c_bindings) \cup Elems(stack[k].rust_exports)
                \cup {stack[k].ret_c, stack[k].ret_rust} :
                k \in 1..Len(stack)}

AllTokens == UNION {Elems(text) : text \in AllTexts}

RECURSIVE HiddenDecls(_, _, _, _)
\* The fn and struct items of a declaration list that have an enclosing
\* module (inline or external) without a public marker; hidden tells whether
\* the list itself is already inside one.
HiddenDecls(items, base_path, hidden, fuel) ==
    IF fuel = 0 THEN { }
    ELSE UNION {
        LET it == items[j]
        IN  IF it.kind \in {"fn", "struct"}
            THEN IF hidden THEN {it} ELSE { }
            ELSE IF it.kind # "mod" THEN { }
            ELSE IF it.inline
            THEN HiddenDecls(it.content, base_path, hidden \/ ~it.pub,
                             fuel - 1)
            ELSE LET r == resolve_mod_path(files, it, base_path)
                 IN  IF r = << >> \/ read_and_parse(files, r[1]) = << >>
                     THEN { }
                     ELSE HiddenDecls(read_and_parse(files, r[1])[1],
                                      path_parent(r[1]), hidden \/ ~it.pub,
                                      fuel - 1)
        : j \in 1..Len(items)}

Hidden ==
    HiddenDecls(top_call.syntax_tree, top_call.base_path, FALSE, MaxDepth + 1)

(***************************************************************************)
(* C1: a module without a public marker is never entered.  Every frame     *)
(* below the running one waits on a module item whose own marker is        *)
(* public; no text of the run holds a token of a fn or struct that has an  *)
(* enclosing non-public module, whatever its own marker; and inside an     *)
(* entered module the private functions already passed were emitted.       *)
(***************************************************************************)
C1_PrivateModNeverEntered ==
    /\ \A k \in 1..(Len(stack) - 1) :
          LET caller == stack[k]
              module == caller.syntax_tree[caller.i]
          IN  module.kind = "mod" /\ module.pub
    /\ \A it \in Hidden :
          HeaderKey(it) \notin AllTokens /\ WrapperKey(it) \notin AllTokens
    /\ \A k \in 2..Len(stack) : \A j \in Processed(stack[k]) :
          LET it == stack[k].syntax_tree[j]
          IN  (it.kind = "fn" /\ ~it.pub) => Emitted(stack[k], it)

\* A finished run in which m1 was entered (its private fn g is in the
\* header) while declarations of a private module nested in it were hidden.
C1_Witness ==
    /\ pc = "done"
    /\ Hidden # { }
    /\ \E tok \in Elems(out.c) : tok.t = "c_decl" /\ tok.name = "g"

(***************************************************************************)
(* C2: every frame of an entered module has parent_public = TRUE, the      *)
(* outermost frame has the caller's flag, and in every frame a fn or       *)
(* struct already passed was emitted exactly when its own marker is public *)
(* or the frame's flag is TRUE.                                            *)
(***************************************************************************)
C2_InheritedExport ==
    \A k \in 1..Len(stack) :
        LET f == stack[k]
        IN  /\ (k >= 2) => f.parent_public
            /\ (k = 1) => (f.parent_public = top_call.parent_public)
            /\ \A j \in Processed(f) :
                  LET it == f.syntax_tree[j]
                  IN  (it.kind \in {"fn", "struct"}) =>
                        /\ (Generated(f, it).rust \in Elems(f.rust_exports))
                              <=> (it.pub \/ f.parent_public)
                        /\ (Generated(f, it).c \in Elems(f.c_bindings))
                              <=> (it.pub \/ f.parent_public)

\* Inside an entered module a private fn and a private struct were emitted,
\* while the outermost call had the flag FALSE.
C2_Witness ==
    /\ pc = "run"
    /\ Len(stack) = 2
    /\ ~top_call.parent_public
    /\ \E j, n \in Processed(Top) :
          /\ Top.syntax_tree[j].kind = "fn" /\ ~Top.syntax_tree[j].pub
          /\ Top.syntax_tree[n].kind = "struct" /\ ~Top.syntax_tree[n].pub
          /\ Emitted(Top, Top.syntax_tree[j])
          /\ Emitted(Top, Top.syntax_tree[n])

IsNotNL(tok) == tok.t # "nl"

StripNL(text) == SelectSeq(text, IsNotNL)

\* Item j of frame f is one that pushes a pair: an exported fn or struct,
\* or a public module that is inline or resolves to a file that parses.
Contributes(f, j) ==
    LET it == f.syntax_tree[j]
    IN  \/ it.kind \in {"fn", "struct"} /\ (it.pub \/ f.parent_public)
        \/ /\ it.kind = "mod"
           /\ it.pub
           /\ \/ it.inline
              \/ LET r == resolve_mod_path(files, it, f.base_path)
                 IN  r # << >> /\ read_and_parse(files, r[1]) # << >>

(***************************************************************************)
(* C3: every exported fn or struct contributes exactly one (header,        *)
(* wrapper) pair and every other declaration none, and the pair a module   *)
(* returns is, in each of the two texts, the concatenation of what its     *)
(* children contributed and nothing of its own (separators aside), so an   *)
(* entered module without exported descendants adds zero length.           *)
(***************************************************************************)
C3_ModuleAddsNothingOfItsOwn ==
    \A k \in 1..Len(stack) :
        LET f == stack[k]
        IN  /\ Len(f.c_bindings) = Len(f.rust_exports)
            /\ Len(f.c_bindings)
                  = Cardinality({j \in Processed(f) : Contributes(f, j)})
            /\ (k >= 2 /\ f.returned) =>
                  /\ StripNL(f.ret_c) = StripNL(Flatten(f.c_bindings))
                  /\ StripNL(f.ret_rust) = StripNL(Flatten(f.rust_exports))

AtPublicExternalMod ==
    /\ InLoop
    /\ Item.kind = "mod"
    /\ Item.pub
    /\ ~Item.inline

C4_ExternalModuleStep ==
    LET file == Top.base_path \o <<Item.name \o ".rs">>
        folder == Top.base_path \o <<Item.name, "mod.rs">>
        taken == IF file \in DOMAIN files THEN file ELSE folder
    IN  AtPublicExternalMod =>
          IF file \notin DOMAIN files /\ folder \notin DOMAIN files
          THEN /\ pc' = "run"
               /\ out' = out
               /\ stack' = [stack EXCEPT ![Len(stack)].i = @ + 1]
          ELSE (files[taken].st # "ok") => (pc' = "aborted" /\ out' = NoOutput)

(***************************************************************************)
(* C4: at a public external module, when neither <base>/<name>.rs nor      *)
(* <base>/<name>/mod.rs exists the step pushes nothing to either vector,   *)
(* the run goes on with the next sibling; when the candidate taken exists  *)
(* but does not read or parse the run aborts; an aborted run has no output *)
(* pair and takes no further step.                                         *)
(***************************************************************************)
C4_ExternalModule ==
    /\ [][C4_ExternalModuleStep]_vars
    /\ [][pc # "aborted"]_vars
    /\ [](pc = "aborted" => out = NoOutput)

\* A run that passed the missing module `gone` without pushing anything
\* for it and then aborted on a module whose file does not read or parse.
C4_Witness ==
    /\ pc = "aborted"
    /\ out = NoOutput
    /\ stack[1].i > 2
    /\ stack[1].syntax_tree[2].name = "gone"
    /\ Len(stack[1].c_bindings) <= 1

TypedInputs(func) == SelectSeq(func.inputs, IsTyped)

\* The function of the single-function input has been visited.
FnVisited ==
    /\ pc = "run"
    /\ Len(stack) = 1
    /\ stack[1].i = 2
    /\ top_call.syntax_tree[1].kind = "fn"

(***************************************************************************)
(* C5: the pair made for an exported function is one header declaration    *)
(* and one wrapper definition, both with the function's name; the header's *)
(* parameter list is the header types of the typed parameters in order     *)
(* followed by void*, the wrapper's is the same parameters without it, so  *)
(* the header has exactly one parameter more.                              *)
(***************************************************************************)
C5_HeaderHasOneMoreParam ==
    FnVisited =>
      LET func == top_call.syntax_tree[1]
          typed == TypedInputs(func)
          hdr == stack[1].c_bindings[1]
          w == stack[1].rust_exports[1]
      IN  /\ Len(stack[1].c_bindings) = 1 /\ Len(stack[1].rust_exports) = 1
          /\ Len(hdr) = 1 /\ hdr[1].t = "c_decl" /\ hdr[1].name = func.name
          /\ Cardinality({j \in 1..Len(w) : w[j].t = "wrapper_sig"}) = 1
          /\ w[1].t = "wrapper_sig" /\ w[1].name = func.name
          /\ Len(hdr[1].tys) = Len(w[1].tys) + 1
          /\ Len(w[1].tys) = Len(typed) /\ Len(w[1].args) = Len(typed)
          /\ \A j \in 1..Len(typed) :
                /\ hdr[1].tys[j] = rust_type_to_c(typed[j].ty)
                /\ w[1].args[j] = typed[j].name
                /\ w[1].tys[j] = rust_type_to_rust_extern_c(typed[j].ty)
          /\ hdr[1].tys[Len(hdr[1].tys)] = "void*"

\* A visited function with a receiver and a typed parameter: one typed
\* parameter, two header parameters.
C5_Witness ==
    /\ FnVisited
    /\ Len(top_call.syntax_tree[1].inputs) = 2
    /\ Len(TypedInputs(top_call.syntax_tree[1])) = 1
    /\ Len(stack[1].c_bindings[1][1].tys) = 2

RECURSIVE ExpectedDecls(_, _, _, _)
\* The fn and struct items the walk is to emit, in pre-order.
ExpectedDecls(items, base_path, inherited, fuel) ==
    IF items = << >> \/ fuel = 0 THEN << >>
    ELSE LET it == Head(items)
             here ==
                 IF it.kind \in {"fn", "struct"}
                 THEN IF it.pub \/ inherited THEN <<it>> ELSE << >>
                 ELSE IF it.kind # "mod" \/ ~it.pub THEN << >>
                 ELSE IF it.inline
                 THEN ExpectedDecls(it.content, base_path, TRUE, fuel - 1)
                 ELSE LET file == base_path \o <<it.name \o ".rs">>
                          folder == base_path \o <<it.name, "mod.rs">>
                          taken == IF file \in DOMAIN files
                                   THEN file ELSE folder
                      IN  IF taken \notin DOMAIN files THEN << >>
                          ELSE ExpectedDecls(files[taken].items,
                                             SubSeq(taken, 1, Len(taken) - 1),
                                             TRUE, fuel - 1)
         IN  here \o ExpectedDecls(Tail(items), base_path, inherited, fuel)

Expected ==
    ExpectedDecls(top_call.syntax_tree, top_call.base_path,
                  top_call.parent_public, MaxDepth + 1)

IsHeaderKey(tok) == tok.t \in {"c_decl", "c_struct"}

IsWrapperKey(tok) == tok.t \in {"wrapper_sig", "rust_new"}

(***************************************************************************)
(* C6: both output texts hold the fragments of the emitted declarations in *)
(* depth-first pre-order of the source, every entered module expanded in   *)
(* place, nothing reordered and nothing dropped as a duplicate.            *)
(***************************************************************************)
C6_PreOrderEmission ==
    (pc = "done") =>
      /\ SelectSeq(out.c, IsHeaderKey)
            = [j \in 1..Len(Expected) |-> HeaderKey(Expected[j])]
      /\ SelectSeq(out.rust, IsWrapperKey)
            = [j \in 1..Len(Expected) |-> WrapperKey(Expected[j])]

\* A finished run whose header holds fn h twice, once from module m2 and
\* once from module twin inside it, and MyStruct after the modules.
C6_Witness ==
    /\ pc = "done"
    /\ \E a, b, c \in 1..Len(out.c) :
          /\ a < b /\ b < c
          /\ out.c[a].t = "c_decl" /\ out.c[a].name = "h"
          /\ out.c[b] = out.c[a]
          /\ out.c[c].t = "c_struct"

RECURSIVE QualifiedName(_)
\* The qualified name of the module whose items frame k walks.
QualifiedName(k) ==
    IF k = 1 THEN to_snake(top_call.crate_name)
    ELSE QualifiedName(k - 1) \o "::"
           \o stack[k - 1].syntax_tree[stack[k - 1].i].name

(***************************************************************************)
(* C7: the module path a function wrapper imports the real function from   *)
(* is the qualified name of the module enclosing the function: the crate   *)
(* for a top-level function, crate::m1::...::mk inside entered modules     *)
(* m1 ... mk.                                                              *)
(***************************************************************************)
C7_ImportsThroughEnclosingModule ==
    \A k \in 1..Len(stack) : \A e \in Elems(stack[k].rust_exports) :
        (e[1].t = "wrapper_sig") => (e[2].t = "use" /\ e[2].ty = QualifiedName(k))

IsConversion(tok) == tok.t \in {"cstr_to_str", "cstr_to_string", "transmute"}

CallPositions(w) == {j \in 1..Len(w) : w[j].t = "call"}

(***************************************************************************)
(* C8: the wrapper of an exported function holds exactly one conversion    *)
(* statement per typed parameter, in declaration order, all before the one *)
(* call of the real function, which passes the parameter names in order.   *)
(***************************************************************************)
C8_OneConversionPerParameter ==
    FnVisited =>
      LET typed == TypedInputs(top_call.syntax_tree[1])
          w == stack[1].rust_exports[1]
          convs == SelectSeq(w, IsConversion)
      IN  /\ Len(convs) = Len(typed)
          /\ \A j \in 1..Len(convs) : convs[j].name = typed[j].name
          /\ Cardinality(CallPositions(w)) = 1
          /\ \A c \in CallPositions(w) :
                /\ \A j \in 1..Len(w) : IsConversion(w[j]) => j < c
                /\ w[c].args = [j \in 1..Len(typed) |-> typed[j].name]

(***************************************************************************)
(* C9: when the function declares no return type, the wrapper body ends    *)
(* right after the call of the real function: the next token closes the    *)
(* body, no conversion of the result follows.                              *)
(***************************************************************************)
C9_NothingAfterCallWithoutReturn ==
    (FnVisited /\ top_call.syntax_tree[1].output = NoReturn) =>
      LET w == stack[1].rust_exports[1]
      IN  \A c \in CallPositions(w) : w[c + 1].t = "close"

(***************************************************************************)
(* C10: every run of the generation pass ends: it returns the two output   *)
(* texts or it aborts on a file that does not read or parse.               *)
(***************************************************************************)
C10_Terminates == <>(pc \in {"done", "aborted"})

\* The stack is exhausted only by a recursion that repeats itself: some frame
\* on it walks the same file from the same base path, and waits at the same
\* module, as the frame that called it.
OverflowOnlyByCycle ==
    (pc = "overflow") =>
      \E k \in 1..(Len(stack) - 1) :
          /\ stack[k].syntax_tree = stack[k + 1].syntax_tree
          /\ stack[k].base_path = stack[k + 1].base_path
          /\ stack[k].i = stack[k + 1].i

====
